---- MODULE Spec2Model ----
(***************************************************************************)
(* A model of the word-extraction library: WordData (the word index),      *)
(* WordExtractor.extract_words (the extraction step) and extract.py (the   *)
(* command-line run).                                                      *)
(*                                                                         *)
(* A surface form is a sequence of character codes (ASCII), so that        *)
(* str.isupper, str.lower and the lexicographic order of strings are       *)
(* computed, not assumed.  A tagged token is <<word, pos>>.  A Python dict  *)
(* is a sequence of <<key, value>> pairs in insertion order, which is the  *)
(* order dict.keys() and dict.values() iterate in.                         *)
(***************************************************************************)
EXTENDS Integers, Sequences, FiniteSets, TLC

VARIABLES
    pc,                 \* where the process is: "fresh" (started), "populating" (a
                        \* WordData exists and is being filled), "reporting" (its
                        \* results are being read), "reported" (they have been
                        \* printed), "exited" (main has ended the process)
    data,               \* WordData.data: dict key -> dict file -> list of sentences
    interesting_types,  \* WordExtractor.interesting_types (class variable)
    seen,               \* history: file -> the tagged sentences extract_words read from it
    adds,               \* history: the number of direct calls of WordData.add
    last                \* history: the most recent call, its arguments and what it returned

vars == <<pc, data, interesting_types, seen, adds, last>>

\* Python's None where the other values are strings (a file, a sort key).
None == "None"

\* An optional integer (n, min_count): <<>> is None, <<i>> is the integer i.
NoInt == <<>>
Int1(i) == <<i>>

\* ------------------------------------------------------------------ bounds

\* Tagged sentences given to the index in one process, read from files by
\* extract_words or passed to WordData.add directly.
MaxSents == 2
\* Largest n a get_results call is given.
MaxN == 2
\* Largest min_count a get_results call is given.
MaxMinCount == 2

\* ------------------------------------------------------------------ text

\* str.isupper() of a one-character ASCII string.
isupper(c) == c \in 65..90

\* str.lower() of one ASCII character.
lower_char(c) == IF c \in 65..90 THEN c + 32 ELSE c

\* str.lower()
lower(w) == [i \in 1..Len(w) |-> lower_char(w[i])]

\* Python's < on two strings: lexicographic by code point.
RECURSIVE str_lt(_, _)
str_lt(a, b) ==
    IF b = <<>> THEN FALSE
    ELSE IF a = <<>> THEN TRUE
    ELSE IF a[1] # b[1] THEN a[1] < b[1]
    ELSE str_lt(Tail(a), Tail(b))

\* str.startswith('V')
startswith_V(pos) == pos \in {"VB", "VBD", "VBG", "VBN", "VBP", "VBZ"}

\* "'" in word
has_apostrophe(w) == \E i \in 1..Len(w) : w[i] = 39

\* The surface forms of the corpus.
w_Dog == <<68, 111, 103>>
w_dog == <<100, 111, 103>>
w_cat == <<99, 97, 116>>
w_the == <<116, 104, 101>>
w_s   == <<39, 115>>

\* The tagged tokens the tagger produces for the corpus.
T_Dog_NN  == <<w_Dog, "NN">>
T_dog_NN  == <<w_dog, "NN">>
T_Dog_NNP == <<w_Dog, "NNP">>
T_cat_NN  == <<w_cat, "NN">>
T_the_DT  == <<w_the, "DT">>
T_s_VBZ   == <<w_s, "VBZ">>

Tokens == {T_Dog_NN, T_dog_NN, T_Dog_NNP, T_cat_NN, T_the_DT, T_s_VBZ}

\* The tagged sentences input files are made of (nltk.pos_tag's output).
Sentences ==
    { <<T_Dog_NN, T_dog_NN>>,
      <<T_dog_NN, T_the_DT, T_dog_NN>>,
      <<T_Dog_NNP, T_dog_NN>>,
      <<T_cat_NN, T_s_VBZ>> }

Files == {"a.txt", "b.txt"}

\* nltk's English stop words, as far as the corpus goes.
STOP_WORDS == {w_the}

\* extract_word_data's default for num.
DefaultNum == 15

DefaultInterestingTypes == {"NN", "NNS", "NNP", "NNPS", "JJ", "JJR", "JJS", "CD", "FW"}

\* ------------------------------------------------------------------ dict

Range(s) == {s[i] : i \in 1..Len(s)}

DictHas(d, k) == \E i \in 1..Len(d) : d[i][1] = k

\* d[k] for a key the dict holds.
DictGet(d, k) == d[CHOOSE i \in 1..Len(d) : d[i][1] = k][2]

\* d[k] = v: a new key goes last, an old key keeps its place.
DictPut(d, k, v) ==
    IF DictHas(d, k)
    THEN [i \in 1..Len(d) |-> IF d[i][1] = k THEN <<k, v>> ELSE d[i]]
    ELSE Append(d, <<k, v>>)

\* list(d.keys())
DictKeys(d) == [i \in 1..Len(d) |-> d[i][1]]

\* list(d.values())
DictValues(d) == [i \in 1..Len(d) |-> d[i][2]]

\* ------------------------------------------------------------------ WordData

\* WordData.__init__(self): the parameters it takes besides self.
WordData_init_params == 0

\* WordData(*args): the new object's data, or the TypeError Python raises when
\* the call does not match __init__'s signature.
WordData_new(args) ==
    [raised |-> IF Len(args) # WordData_init_params THEN "TypeError" ELSE None,
     data |-> <<>>]

\* A plausible slip: the key's dict is made anew whenever the file is new to it.
add_resetting(self, word_pos, file, sentence_pos) ==
    LET occ == IF DictHas(self, word_pos) /\ DictHas(DictGet(self, word_pos), file)
               THEN DictGet(self, word_pos)
               ELSE <<<<file, <<>>>>>>
    IN  DictPut(self, word_pos,
                DictPut(occ, file, Append(DictGet(occ, file), sentence_pos)))

\* WordData.add: self.data after the call.
add(self, word_pos, file, sentence_pos) ==
    LET d1   == IF ~DictHas(self, word_pos) THEN DictPut(self, word_pos, <<>>) ELSE self
        occ  == DictGet(d1, word_pos)
        occ1 == IF ~DictHas(occ, file) THEN DictPut(occ, file, <<>>) ELSE occ
    IN  DictPut(d1, word_pos,
                DictPut(occ1, file, Append(DictGet(occ1, file), sentence_pos)))

\* A plausible slip: the token is lowercased whatever its category.
is_equivalent_folding_all(word_pos, word_pos_in_sentence) ==
    LET w0 == word_pos_in_sentence[1]
        p  == word_pos_in_sentence[2]
        w  == IF isupper(w0[1]) THEN lower(w0) ELSE w0
    IN  word_pos[1] = w /\ word_pos[2] = p

\* WordData.is_equivalent
is_equivalent(word_pos, word_pos_in_sentence) ==
    LET w0 == word_pos_in_sentence[1]
        p  == word_pos_in_sentence[2]
        w  == IF p \notin {"NNP", "NNPS"} /\ isupper(w0[1]) THEN lower(w0) ELSE w0
    IN  word_pos[1] = w /\ word_pos[2] = p

\* The inner loop of get_count: the tokens of one sentence equivalent to word_pos.
RECURSIVE count_in_sentence(_, _)
count_in_sentence(word_pos, sentence_pos) ==
    IF sentence_pos = <<>> THEN 0
    ELSE (IF is_equivalent(word_pos, Head(sentence_pos)) THEN 1 ELSE 0)
         + count_in_sentence(word_pos, Tail(sentence_pos))

\* The outer loop of get_count.
RECURSIVE count_in_sentences(_, _)
count_in_sentences(word_pos, sentences) ==
    IF sentences = <<>> THEN 0
    ELSE count_in_sentence(word_pos, Head(sentences))
         + count_in_sentences(word_pos, Tail(sentences))

\* [s for doc in docs for s in doc]
RECURSIVE flatten(_)
flatten(docs) ==
    IF docs = <<>> THEN <<>> ELSE Head(docs) \o flatten(Tail(docs))

\* A plausible slip: with no file given, only the first file's sentences are read.
get_count_first_file(self, word_pos, file) ==
    IF ~DictHas(self, word_pos) THEN 0
    ELSE LET occ == DictGet(self, word_pos)
             sentences ==
                 IF file # None
                 THEN (IF DictHas(occ, file) THEN DictGet(occ, file) ELSE <<>>)
                 ELSE Head(DictValues(occ))
         IN  count_in_sentences(word_pos, sentences)

\* WordData.get_count; file is None or a file.
get_count(self, word_pos, file) ==
    IF ~DictHas(self, word_pos) THEN 0
    ELSE LET occ == DictGet(self, word_pos)
             sentences ==
                 IF file # None
                 THEN (IF DictHas(occ, file) THEN DictGet(occ, file) ELSE <<>>)
                 ELSE flatten(DictValues(occ))
         IN  count_in_sentences(word_pos, sentences)

\* ------------------------------------------------------------------ WordExtractor

\* WordExtractor.is_interesting
is_interesting(types, word_pos) ==
    word_pos[1] \notin STOP_WORDS /\ word_pos[2] \in types

\* A plausible slip: proper nouns are lowercased too.
case_fold_all(word_pos) ==
    IF isupper(word_pos[1][1]) THEN <<lower(word_pos[1]), word_pos[2]>> ELSE word_pos

\* extract_words: "convert to lowercase if word is not a proper noun".
case_fold(word_pos) ==
    IF word_pos[2] \notin {"NNP", "NNPS"} /\ isupper(word_pos[1][1])
    THEN <<lower(word_pos[1]), word_pos[2]>>
    ELSE word_pos

\* The body of extract_words' loop over set(word_pos_tuples) for one element:
\* whether data.add is called for it.
is_added(types, raw) ==
    /\ is_interesting(types, case_fold(raw))
    /\ \/ startswith_V(raw[2]) /\ ~has_apostrophe(raw[1])
       \/ ~startswith_V(raw[2])

\* extract_words for one tagged sentence; order is the order in which
\* set(word_pos_tuples) is iterated, which the hashes of its elements decide.
extract_sentence(self, types, file, word_pos_tuples, order) ==
    LET RECURSIVE go(_, _)
        go(d, rest) ==
            IF rest = <<>> THEN d
            ELSE go(IF is_added(types, Head(rest))
                    THEN add(d, case_fold(Head(rest)), file, word_pos_tuples)
                    ELSE d,
                    Tail(rest))
    IN  go(self, order)

\* The orders a set can be iterated in.
Orders(S) ==
    {o \in [1..Cardinality(S) -> S] : \A i, j \in 1..Cardinality(S) : o[i] = o[j] => i = j}

\* WordExtractor.extract_words over a file's tagged sentences: every value
\* self.data can have afterwards, one for each way the sets are iterated.
RECURSIVE extract_words(_, _, _, _)
extract_words(self, types, file, content) ==
    IF content = <<>> THEN {self}
    ELSE UNION { extract_words(extract_sentence(self, types, file, Head(content), order),
                               types, file, Tail(content))
                 : order \in Orders(Range(Head(content))) }

\* The contents an input file can have.
FileContents == UNION {[1..n -> Sentences] : n \in 1..MaxSents}

\* WordExtractor.set_interesting_types: the new class variable, or the
\* ValueError raised at the first invalid entry (the class variable is then
\* left as it was).
set_interesting_types(word_types) ==
    LET tags(type) ==
            IF type = "nouns" THEN {"NN", "NNS", "NNP", "NNPS"}
            ELSE IF type = "verbs" THEN {"VB", "VBD", "VBG", "VBN", "VBP", "VBZ"}
            ELSE {"JJ", "JJR", "JJS"}
        invalid == \E i \in 1..Len(word_types) :
                       word_types[i] \notin {"nouns", "verbs", "adjectives"}
    IN  [raised |-> IF invalid THEN "ValueError" ELSE None,
         types |-> UNION {tags(word_types[i]) : i \in 1..Len(word_types)}]

\* ------------------------------------------------------------------ results

\* A plausible slip: the count is not negated, so the order is ascending.
count_asc_alphabetical(self, word_pos) ==
    <<get_count(self, word_pos, None), lower(word_pos[1])>>

\* extract_word_data's count_desc_alphabetical: (-count, word.lower()).
count_desc_alphabetical(self, word_pos) ==
    <<0 - get_count(self, word_pos, None), lower(word_pos[1])>>

\* Python's < on two such tuples.
key_lt(a, b) == a[1] < b[1] \/ (a[1] = b[1] /\ str_lt(a[2], b[2]))

\* list.sort(key=...): a stable sort, so an element goes after every element
\* already placed whose key is not greater than its own.
RECURSIVE insert_sorted(_, _, _)
insert_sorted(self, sorted, x) ==
    IF sorted = <<>> THEN <<x>>
    ELSE IF key_lt(count_desc_alphabetical(self, x),
                   count_desc_alphabetical(self, Head(sorted)))
         THEN <<x>> \o sorted
         ELSE <<Head(sorted)>> \o insert_sorted(self, Tail(sorted), x)

RECURSIVE sort_keys(_, _, _)
sort_keys(self, todo, sorted) ==
    IF todo = <<>> THEN sorted
    ELSE sort_keys(self, Tail(todo), insert_sorted(self, sorted, Head(todo)))

\* generate_results up to its loop: words_pos_list, sorted when sort_by is given.
\* sort_by is None or "count_desc_alphabetical".
words_pos_list(self, sort_by) ==
    IF sort_by # None THEN sort_keys(self, DictKeys(self), <<>>) ELSE DictKeys(self)

\* A plausible slip: > where the code has >=.
qualifies_strictly(self, word_pos, min_count) ==
    min_count = NoInt \/ get_count(self, word_pos, None) > min_count[1]

\* The test of generate_results' loop.
qualifies(self, word_pos, min_count) ==
    min_count = NoInt \/ get_count(self, word_pos, None) >= min_count[1]

\* islice(results_iter, 0, n) consumed to its end: the generator is advanced
\* from position pos of its list until n entries have been yielded (left = 0)
\* or the list is exhausted.  An entry is identified by its key; the
\* occurrences yielded with it are self.data[key].
RECURSIVE islice(_, _, _, _, _)
islice(self, list, pos, left, min_count) ==
    IF left = 0 \/ pos > Len(list) THEN <<>>
    ELSE IF qualifies(self, list[pos], min_count)
         THEN <<list[pos]>> \o islice(self, list, pos + 1, left - 1, min_count)
         ELSE islice(self, list, pos + 1, left, min_count)

\* A plausible slip: islice(results_iter, 1, n), which skips the first entry.
get_results_from_one(self, n, min_count, sort_by) ==
    LET n1 == IF n = NoInt \/ n[1] = 0 THEN Len(DictKeys(self)) ELSE n[1]
        all == islice(self, words_pos_list(self, sort_by), 1, n1, min_count)
    IN  IF all = <<>> THEN <<>> ELSE Tail(all)

\* WordData.get_results, consumed to its end by the caller.
get_results(self, n, min_count, sort_by) ==
    LET n1 == IF n = NoInt \/ n[1] = 0 THEN Len(DictKeys(self)) ELSE n[1]
    IN  islice(self, words_pos_list(self, sort_by), 1, n1, min_count)

\* WordData.print_results: the report, one entry per result.  The sentences
\* are the words of each recorded sentence, those equivalent to the entry's
\* word marked when the report goes to the console.
print_results(self, results, include_sentences, file) ==
    LET sentence_line(word_pos, sentence) ==
            [i \in 1..Len(sentence) |->
                <<sentence[i][1], file = None /\ is_equivalent(word_pos, sentence[i])>>]
        file_entry(word_pos, occ, i) ==
            [file |-> occ[i][1],
             count |-> get_count(self, word_pos, occ[i][1]),
             sentences |-> IF include_sentences
                           THEN [j \in 1..Len(occ[i][2]) |-> sentence_line(word_pos, occ[i][2][j])]
                           ELSE <<>>]
        entry(rank) ==
            LET word_pos == results[rank]
                occ == DictGet(self, word_pos)
            IN  [rank |-> rank,
                 word |-> word_pos[1],
                 count |-> get_count(self, word_pos, None),
                 files |-> [i \in 1..Len(occ) |-> file_entry(word_pos, occ, i)]]
    IN  [rank \in 1..Len(results) |-> entry(rank)]

\* ------------------------------------------------------------------ state machine

NoSeen == [f \in Files |-> <<>>]

Call(op, args, ret) == [op |-> op, args |-> args, ret |-> ret]

Init ==
    /\ pc = "fresh"
    /\ data = None
    /\ interesting_types = DefaultInterestingTypes
    /\ seen = NoSeen
    /\ adds = 0
    /\ last = Call("start", <<>>, None)

\* The tagged sentences the index has been given so far.
Given == Len(seen["a.txt"]) + Len(seen["b.txt"]) + adds

\* data = WordData()
NewWordData ==
    /\ pc = "fresh"
    /\ WordData_new(<<>>).raised = None
    /\ data' = WordData_new(<<>>).data
    /\ pc' = "populating"
    /\ last' = Call("WordData", <<>>, None)
    /\ UNCHANGED <<interesting_types, seen, adds>>

\* WordExtractor(file).extract_words(data)
ExtractWords ==
    /\ pc = "populating"
    /\ \E file \in Files, content \in FileContents :
        /\ Given + Len(content) <= MaxSents
        /\ data' \in extract_words(data, interesting_types, file, content)
        /\ seen' = [seen EXCEPT ![file] = @ \o content]
        /\ last' = Call("extract_words", [file |-> file, content |-> content], None)
    /\ UNCHANGED <<pc, interesting_types, adds>>

\* data.add(word_pos, file, sentence_pos), called by a client of WordData with
\* a token of the sentence as the tagger gave it.
Add ==
    /\ pc = "populating"
    /\ Given < MaxSents
    /\ \E sentence_pos \in Sentences, file \in Files :
        \E word_pos \in Range(sentence_pos) :
            /\ data' = add(data, word_pos, file, sentence_pos)
            /\ last' = Call("add", [word_pos |-> word_pos, file |-> file,
                                    sentence_pos |-> sentence_pos], None)
    /\ adds' = adds + 1
    /\ UNCHANGED <<pc, interesting_types, seen>>

\* list(data.get_results(n, min_count, sort_by)): the index is read once it
\* has been populated, as extract_word_data does.
GetResults ==
    /\ pc \in {"populating", "reporting"}
    /\ \E n \in {NoInt} \cup {Int1(i) : i \in 1..MaxN},
          min_count \in {NoInt} \cup {Int1(i) : i \in 1..MaxMinCount},
          sort_by \in {None, "count_desc_alphabetical"} :
        last' = Call("get_results", [n |-> n, min_count |-> min_count, sort_by |-> sort_by],
                     get_results(data, n, min_count, sort_by))
    /\ pc' = "reporting"
    /\ UNCHANGED <<data, interesting_types, seen, adds>>

\* data.print_results(results, include_sentences, file) on the results just
\* obtained, which ends the report as it ends extract_word_data.
PrintResults ==
    /\ pc = "reporting"
    /\ last.op = "get_results"
    /\ \E include_sentences \in BOOLEAN, file \in {None, "results.txt"} :
        last' = Call("print_results", [include_sentences |-> include_sentences, file |-> file],
                     print_results(data, last.ret, include_sentences, file))
    /\ pc' = "reported"
    /\ UNCHANGED <<data, interesting_types, seen, adds>>

\* The loop of extract_word_data over input_files: every value word_data.data
\* can have after it, contents[file] being what each file holds.
RECURSIVE extract_files(_, _, _, _)
extract_files(self, types, input_files, contents) ==
    IF input_files = <<>> THEN {self}
    ELSE UNION { extract_files(d, types, Tail(input_files), contents)
                 : d \in extract_words(self, types, Head(input_files),
                                       contents[Head(input_files)]) }

\* The values of the interested_in option; "adverbs" is not a valid one.
WordTypeLists == {<<"nouns", "verbs">>, <<"adjectives">>, <<"nouns", "adverbs">>}

\* The input_files of a run (get_files of a readable directory).
InputFileLists == {<<"a.txt">>, <<"a.txt", "b.txt">>, <<"b.txt", "a.txt">>}

\* The options of a run, as extract_args hands them to extract_word_data.
RunOptions ==
    [interested_in : {<<>>} \cup WordTypeLists,
     lemmatize : BOOLEAN,
     num : {DefaultNum} \cup 1..MaxN,
     all : BOOLEAN,
     min_count : {NoInt} \cup {Int1(i) : i \in 1..MaxMinCount},
     omit_sentences : BOOLEAN,
     file : {None}]

RunResult(exit_code, extracted, rendered, report) ==
    [exit_code |-> exit_code, extracted |-> extracted, rendered |-> rendered,
     report |-> report]

\* main() with a readable directory: extract_word_data(input_files, **args),
\* a TypeError caught and answered by print_help_and_exit(1).
Main ==
    /\ pc = "fresh"
    /\ pc' = "exited"
    /\ adds' = adds
    /\ \E input_files \in InputFileLists, o \in RunOptions :
        LET args  == [input_files |-> input_files, options |-> o]
            types == IF o.interested_in # <<>>
                     THEN set_interesting_types(o.interested_in)
                     ELSE [raised |-> None, types |-> interesting_types]
            word_data == WordData_new(<<o.lemmatize>>)
        IN  IF types.raised # None
            THEN \* "invalid value specified for --interesting option"
                 /\ last' = Call("main", args, RunResult(1, <<>>, FALSE, <<>>))
                 /\ UNCHANGED <<data, interesting_types, seen>>
            ELSE IF word_data.raised # None
            THEN \* except TypeError: print_help_and_exit(1)
                 /\ interesting_types' = types.types
                 /\ last' = Call("main", args, RunResult(1, <<>>, FALSE, <<>>))
                 /\ UNCHANGED <<data, seen>>
            ELSE \E contents \in [Files -> FileContents] :
                 /\ interesting_types' = types.types
                 /\ data' \in extract_files(word_data.data, types.types, input_files, contents)
                 /\ seen' = [f \in Files |-> IF f \in Range(input_files)
                                              THEN contents[f] ELSE <<>>]
                 /\ LET results == get_results(data', IF o.all THEN NoInt ELSE Int1(o.num),
                                               o.min_count, "count_desc_alphabetical")
                    IN  last' = Call("main", args,
                                     RunResult(0, input_files, TRUE,
                                               print_results(data', results,
                                                             ~o.omit_sentences, o.file)))

\* The library as the program uses it: the index is filled by extract_words.
Next ==
    \/ NewWordData
    \/ ExtractWords
    \/ GetResults
    \/ PrintResults
    \/ Main

Spec == Init /\ [][Next]_vars

\* The index filled by a client of WordData, through extract_words and through
\* direct calls of add.
NextAdd ==
    \/ NewWordData
    \/ ExtractWords
    \/ Add

SpecAdd == Init /\ [][NextAdd]_vars

\* ------------------------------------------------------------------ claims

\* A WordData exists: data is a dict.
Populated == pc \in {"populating", "reporting", "reported"}

Keys(self) == Range(DictKeys(self))

\* Every key a query can name: the corpus' tokens and their lowercased forms.
AllKeys == Tokens \cup {<<lower(t[1]), t[2]>> : t \in Tokens}

\* The case-fold rule of the normalization policy, stated on its own.
RuleKey(t) ==
    IF t[2] \notin {"NNP", "NNPS"} /\ t[1][1] \in 65..90
    THEN <<[i \in 1..Len(t[1]) |-> IF t[1][i] \in 65..90 THEN t[1][i] + 32 ELSE t[1][i]], t[2]>>
    ELSE t

\* self.data[word_pos][file], or the empty list when there is none.
ListOf(self, word_pos, file) ==
    IF DictHas(self, word_pos) /\ DictHas(DictGet(self, word_pos), file)
    THEN DictGet(DictGet(self, word_pos), file)
    ELSE <<>>

IsPrefix(a, b) == Len(a) <= Len(b) /\ SubSeq(b, 1, Len(a)) = a

Min(a, b) == IF a <= b THEN a ELSE b

\* C1: after extract_words has processed any sequence of input files, for
\* every key of the index and every file, get_count(key, file) is the number
\* of tokens of the sentences read from that file that are equivalent to key:
\* each token is counted exactly once.
C1_EachTokenCountedOnce ==
    Populated =>
        \A k \in Keys(data), f \in Files :
            get_count(data, k, f) = count_in_sentences(k, seen[f])

\* C2, as claimed: add(t, f, s) records the sentence under the case-folded
\* key of t, so that the keys after the call are the keys before it and
\* RuleKey(t).
C2_AddFoldsItsKey ==
    [][last'.op = "add" =>
          Keys(data') = Keys(data) \cup {RuleKey(last'.args.word_pos)}]_vars

\* The tokens of a file's sentences for which extract_words calls add.
AddedTokens(content) ==
    {t \in UNION {Range(content[i]) : i \in 1..Len(content)} :
        is_added(interesting_types, t)}

\* C2, as amended: add(t, f, s) records the sentence under t as it is given;
\* the case-fold rule is applied by extract_words, which calls add with
\* RuleKey(t) for each token t it keeps.
C2_ExtractorFoldsAddKeepsKey ==
    [][/\ last'.op = "add" =>
            /\ Keys(data') = Keys(data) \cup {last'.args.word_pos}
            /\ ListOf(data', last'.args.word_pos, last'.args.file) # <<>>
       /\ last'.op = "extract_words" =>
            /\ Keys(data') = Keys(data) \cup
                             {RuleKey(t) : t \in AddedTokens(last'.args.content)}
            /\ \A i \in 1..Len(last'.args.content) :
                 \A t \in Range(last'.args.content[i]) :
                    is_added(interesting_types, t) =>
                        last'.args.content[i]
                            \in Range(ListOf(data', RuleKey(t), last'.args.file))]_vars

\* C2's case: extract_words has recorded ("Dog","NN") under ("dog","NN") and
\* ("Dog","NNP") under itself, and a direct add of ("Dog","NN") has then made
\* ("Dog","NN") a key.
C2_Witness ==
    /\ Populated
    /\ last.op = "add"
    /\ last.args.word_pos = T_Dog_NN
    /\ T_Dog_NN \in Keys(data)
    /\ \E f \in Files : T_Dog_NN \in UNION {Range(seen[f][i]) : i \in 1..Len(seen[f])}
    /\ T_dog_NN \in Keys(data)

\* The sum of get_count(k, f) over the files f recorded for k.
RECURSIVE SumOverFiles(_, _, _)
SumOverFiles(self, k, occ) ==
    IF occ = <<>> THEN 0
    ELSE get_count(self, k, Head(occ)[1]) + SumOverFiles(self, k, Tail(occ))

\* C3: in every state of the index and for every key k, indexed or not,
\* get_count(k) with no file is the sum of get_count(k, f) over the files
\* recorded for k.
C3_CountIsSumOverFiles ==
    Populated =>
        \A k \in AllKeys :
            get_count(data, k, None)
                = SumOverFiles(data, k, IF DictHas(data, k) THEN DictGet(data, k) ELSE <<>>)

\* C3's case: a key recorded in two files, counted in each.
C3_Witness ==
    /\ Populated
    /\ \E k \in Keys(data) :
        /\ Len(DictGet(data, k)) = 2
        /\ get_count(data, k, "a.txt") >= 1
        /\ get_count(data, k, "b.txt") >= 2

\* C4, as claimed: after add calls whose t is a token of s, a key is in the
\* index if and only if its total count is at least 1.
C4_IndexedIffCounted ==
    Populated =>
        \A k \in AllKeys : DictHas(data, k) <=> get_count(data, k, None) >= 1

\* A key in case-folded form: not an uppercase-initial surface form of a
\* category other than NNP and NNPS.
IsFolded(k) == ~(k[2] \notin {"NNP", "NNPS"} /\ k[1][1] \in 65..90)

\* C4, as amended: a key has a total count of at least 1 if and only if it is
\* in the index and in case-folded form; a key added in its raw capitalised
\* form is in the index with count 0, and a key never indexed has count 0.
C4_FoldedIndexedIffCounted ==
    Populated =>
        \A k \in AllKeys :
            (DictHas(data, k) /\ IsFolded(k)) <=> get_count(data, k, None) >= 1

\* C4's case: the raw key ("Dog","NN") is indexed with count 0 beside the
\* folded key ("dog","NN"), which is counted.
C4_Witness ==
    /\ Populated
    /\ T_Dog_NN \in Keys(data)
    /\ get_count(data, T_Dog_NN, None) = 0
    /\ T_dog_NN \in Keys(data)
    /\ get_count(data, T_dog_NN, None) >= 1
    /\ get_count(data, T_cat_NN, None) = 0

\* C5: get_results with min_count = m and no n yields exactly the indexed
\* keys whose total count is at least m, each once.
C5_ExactlyTheKeysAtLeastMinCount ==
    (last.op = "get_results" /\ last.args.n = NoInt /\ last.args.min_count # NoInt) =>
        /\ Range(last.ret)
             = {k \in Keys(data) : get_count(data, k, None) >= last.args.min_count[1]}
        /\ Cardinality(Range(last.ret)) = Len(last.ret)

\* C5's case: a key counted exactly min_count is yielded and an indexed key
\* counted less is not.
C5_Witness ==
    /\ last.op = "get_results"
    /\ last.args.n = NoInt
    /\ last.args.min_count = Int1(2)
    /\ \E k \in Range(last.ret) : get_count(data, k, None) = 2
    /\ \E k \in Keys(data) : get_count(data, k, None) = 1 /\ k \notin Range(last.ret)

\* C6: with the default ranking key, get_results yields entries in
\* non-increasing order of total count, and entries of equal count in
\* ascending order of their lowercased surface form.
C6_RankedByCountThenWord ==
    (last.op = "get_results" /\ last.args.sort_by = "count_desc_alphabetical") =>
        \A i, j \in 1..Len(last.ret) :
            i < j =>
                /\ get_count(data, last.ret[i], None) >= get_count(data, last.ret[j], None)
                /\ get_count(data, last.ret[i], None) = get_count(data, last.ret[j], None)
                     => ~str_lt(lower(last.ret[j][1]), lower(last.ret[i][1]))

\* C6's case: ("cat","NN") became a key after ("dog","NN"), has the same
\* count and is yielded before it.
C6_Witness ==
    /\ last.op = "get_results"
    /\ last.args.sort_by = "count_desc_alphabetical"
    /\ \E i, j \in 1..Len(data) :
        i < j /\ data[i][1] = T_dog_NN /\ data[j][1] = T_cat_NN
    /\ \E i, j \in 1..Len(last.ret) :
        /\ i < j /\ last.ret[i] = T_cat_NN /\ last.ret[j] = T_dog_NN
        /\ get_count(data, T_cat_NN, None) = get_count(data, T_dog_NN, None)

\* C7: the default ranking is a total order on the keys of the index: an
\* index of the same content whose keys were inserted in any other order
\* yields the same key sequence from get_results.
C7_RankingIgnoresInsertionOrder ==
    Populated =>
        \A other \in Orders(Range(data)) :
            get_results(other, NoInt, NoInt, "count_desc_alphabetical")
                = get_results(data, NoInt, NoInt, "count_desc_alphabetical")

\* The full ranked and filtered sequence: the qualifying keys of the ranked list.
RECURSIVE Qualifying(_, _, _)
Qualifying(self, list, min_count) ==
    IF list = <<>> THEN <<>>
    ELSE (IF min_count = NoInt \/ get_count(self, Head(list), None) >= min_count[1]
          THEN <<Head(list)>> ELSE <<>>)
         \o Qualifying(self, Tail(list), min_count)

FullSequence(self, args) ==
    Qualifying(self, words_pos_list(self, args.sort_by), args.min_count)

\* C8: get_results with n >= 1 yields the first min(n, q) entries of the full
\* ranked and filtered sequence of q entries; a following call with no n, on
\* the unchanged index, yields all q entries from the first, in the same order.
C8_LimitThenRestart ==
    [][/\ (last'.op = "get_results" /\ last'.args.n # NoInt) =>
            last'.ret = SubSeq(FullSequence(data', last'.args), 1,
                               Min(last'.args.n[1], Len(FullSequence(data', last'.args))))
       /\ (/\ last.op = "get_results" /\ last'.op = "get_results"
           /\ last'.args.n = NoInt
           /\ last'.args.min_count = last.args.min_count
           /\ last'.args.sort_by = last.args.sort_by) =>
            /\ last'.ret = FullSequence(data', last'.args)
            /\ IsPrefix(last.ret, last'.ret)]_vars

\* C8's case: three keys qualify and n = 2 has cut the sequence to two.
C8_Witness ==
    /\ last.op = "get_results"
    /\ last.args.n = Int1(2)
    /\ Len(last.ret) = 2
    /\ Len(FullSequence(data, last.args)) = 3

\* No key, file or recorded sentence of self is removed or moved in after.
NothingRemoved(self, after) ==
    /\ Len(self) <= Len(after)
    /\ \A i \in 1..Len(self) :
        /\ after[i][1] = self[i][1]
        /\ Len(self[i][2]) <= Len(after[i][2])
        /\ \A j \in 1..Len(self[i][2]) :
            /\ after[i][2][j][1] = self[i][2][j][1]
            /\ IsPrefix(self[i][2][j][2], after[i][2][j][2])

\* C9: add(t, f, s) appends s as the last element of the list of (t, f),
\* creating the key and the file when absent, and leaves every other list as
\* it was; no operation removes or reorders a key, a file or a sentence.
C9_AddAppendsAndKeepsTheRest ==
    [][(pc = "populating" /\ pc' = "populating") =>
          /\ NothingRemoved(data, data')
          /\ last'.op = "add" =>
                /\ ListOf(data', last'.args.word_pos, last'.args.file)
                     = Append(ListOf(data, last'.args.word_pos, last'.args.file),
                              last'.args.sentence_pos)
                /\ \A k \in AllKeys, f \in Files :
                     <<k, f>> # <<last'.args.word_pos, last'.args.file>>
                        => /\ ListOf(data', k, f) = ListOf(data, k, f)
                           /\ DictHas(data', k) /\ DictHas(DictGet(data', k), f)
                                => DictHas(data, k) /\ DictHas(DictGet(data, k), f)
                           /\ DictHas(data', k) => (DictHas(data, k) \/ k = last'.args.word_pos)]_vars

\* C9's case: add(t, f, s1) then add(t, f, s2) with two different sentences.
C9_Witness ==
    /\ Populated
    /\ last.op = "add"
    /\ LET l == ListOf(data, last.args.word_pos, last.args.file)
       IN  Len(l) = 2 /\ l[1] # l[2] /\ l[2] = last.args.sentence_pos

\* C10: a run of extract_word_data with readable input files and valid
\* options creates the index, runs extract_words for every input file and
\* then reaches the rendering step; it does not end in an error.
C10_RunReachesRendering ==
    (/\ last.op = "main"
     /\ \/ last.args.options.interested_in = <<>>
        \/ set_interesting_types(last.args.options.interested_in).raised = None) =>
        /\ last.ret.exit_code = 0
        /\ last.ret.extracted = last.args.input_files
        /\ last.ret.rendered

====
